---- MODULE Spec2Model ----
(***************************************************************************)
(* Globetrotter: the country-name matcher and the polygon loader that run  *)
(* inside the map WebView (src/unnamed/part_002 and                         *)
(* src/src/components/MapView.tsx).                                         *)
(*                                                                         *)
(* JavaScript values are records [t, v]: t is the JavaScript type, v the   *)
(* string content (strings) or the identity of the object (objects and     *)
(* functions, compared by reference with ===).                             *)
(***************************************************************************)
EXTENDS Integers, Sequences, FiniteSets, TLC

(***************************************************************************)
(* Bounds of the model.                                                    *)
(***************************************************************************)
\* most whitespace characters put on each side of a name
MaxPad == 1
\* most successive applications of normalizeCountryName to one name
MaxPasses == 3
\* most features in one fetched feature collection
MaxFeatures == 3
\* most stored locations handed to the map
MaxLocations == 2
MaxCycles == 2
MaxStored == 1
MaxRecords == 2
MaxOps == 2
MaxTime == 4
MaxCalls == 3
Wait == 2

(***************************************************************************)
(* JavaScript values and the String methods the matcher uses.              *)
(***************************************************************************)
Str(s) == [t |-> "string", v |-> s]
Undefined == [t |-> "undefined", v |-> ""]
\* Object.prototype.constructor, the function Object
ObjectFunction == [t |-> "function", v |-> "Object"]
\* Object.prototype itself, the value of the inherited accessor __proto__
ObjectPrototype == [t |-> "object", v |-> "Object.prototype"]

\* ToBoolean: what `!x` and `a || b` test
Truthy(x) ==
    CASE x.t = "string" -> x.v # ""
      [] x.t = "undefined" -> FALSE
      [] OTHER -> TRUE

\* a || b
Or(a, b) == IF Truthy(a) THEN a ELSE b

\* a completion of a call: a returned value or a thrown TypeError
Return(x) == [threw |-> FALSE, val |-> x]
ThrowTypeError == [threw |-> TRUE, val |-> Undefined]
\* the same for a call that returns a boolean
MatchThrew == [threw |-> TRUE, val |-> FALSE]

CharAt(s, i) == SubSeq(s, i, i)

UpperCaseLetters == "ABCDEFGHIJKLMNOPQRSTUVWXYZ"
LowerCaseLetters == "abcdefghijklmnopqrstuvwxyz"

toLowerCaseChar(c) ==
    IF \E i \in 1..26 : CharAt(UpperCaseLetters, i) = c
    THEN CharAt(LowerCaseLetters, CHOOSE i \in 1..26 : CharAt(UpperCaseLetters, i) = c)
    ELSE c

\* String.prototype.toLowerCase on the characters the model uses
RECURSIVE toLowerCase(_)
toLowerCase(s) ==
    IF Len(s) = 0 THEN ""
    ELSE toLowerCaseChar(CharAt(s, 1)) \o toLowerCase(SubSeq(s, 2, Len(s)))

toUpperCaseChar(c) ==
    IF \E i \in 1..26 : CharAt(LowerCaseLetters, i) = c
    THEN CharAt(UpperCaseLetters, CHOOSE i \in 1..26 : CharAt(LowerCaseLetters, i) = c)
    ELSE c

\* String.prototype.toUpperCase, used to build the inputs
RECURSIVE toUpperCase(_)
toUpperCase(s) ==
    IF Len(s) = 0 THEN ""
    ELSE toUpperCaseChar(CharAt(s, 1)) \o toUpperCase(SubSeq(s, 2, Len(s)))

WhiteSpace == {" ", "\t"}

RECURSIVE trimStart(_)
trimStart(s) ==
    IF Len(s) > 0 /\ CharAt(s, 1) \in WhiteSpace
    THEN trimStart(SubSeq(s, 2, Len(s)))
    ELSE s

RECURSIVE trimEnd(_)
trimEnd(s) ==
    IF Len(s) > 0 /\ CharAt(s, Len(s)) \in WhiteSpace
    THEN trimEnd(SubSeq(s, 1, Len(s) - 1))
    ELSE s

\* String.prototype.trim
trim(s) == trimEnd(trimStart(s))

\* String.prototype.includes
includes(s, sub) ==
    \E i \in 1..(Len(s) - Len(sub) + 1) : SubSeq(s, i, i + Len(sub) - 1) = sub

(***************************************************************************)
(* normalizeCountryName and countriesMatch (src/unnamed/part_002).         *)
(***************************************************************************)
\* the table with one target written capitalized
countryMappingsCapitalized ==
    ("serbia" :> "republic of serbia") @@
    ("republic of serbia" :> "serbia") @@
    ("usa" :> "united states") @@
    ("united states" :> "united states of america") @@
    ("united states of america" :> "usa") @@
    ("america" :> "united states") @@
    ("uk" :> "united kingdom") @@
    ("united kingdom" :> "britain") @@
    ("britain" :> "united kingdom") @@
    ("great britain" :> "united kingdom") @@
    ("russia" :> "russian federation") @@
    ("russian federation" :> "russia") @@
    ("czechia" :> "czech republic") @@
    ("czech republic" :> "czechia") @@
    ("south korea" :> "republic of korea") @@
    ("republic of korea" :> "south korea") @@
    ("north korea" :> "democratic people's republic of korea") @@
    ("iran" :> "islamic republic of iran") @@
    ("islamic republic of iran" :> "iran") @@
    ("congo" :> "democratic republic of the congo") @@
    ("drc" :> "democratic republic of the congo") @@
    ("vatican" :> "vatican city") @@
    ("vatican city" :> "Holy See")

\* the object literal countryMappings: its own properties
countryMappings ==
    ("serbia" :> "republic of serbia") @@
    ("republic of serbia" :> "serbia") @@
    ("usa" :> "united states") @@
    ("united states" :> "united states of america") @@
    ("united states of america" :> "usa") @@
    ("america" :> "united states") @@
    ("uk" :> "united kingdom") @@
    ("united kingdom" :> "britain") @@
    ("britain" :> "united kingdom") @@
    ("great britain" :> "united kingdom") @@
    ("russia" :> "russian federation") @@
    ("russian federation" :> "russia") @@
    ("czechia" :> "czech republic") @@
    ("czech republic" :> "czechia") @@
    ("south korea" :> "republic of korea") @@
    ("republic of korea" :> "south korea") @@
    ("north korea" :> "democratic people's republic of korea") @@
    ("iran" :> "islamic republic of iran") @@
    ("islamic republic of iran" :> "iran") @@
    ("congo" :> "democratic republic of the congo") @@
    ("drc" :> "democratic republic of the congo") @@
    ("vatican" :> "vatican city") @@
    ("vatican city" :> "holy see")

\* countryMappings[key]: an own property, else a property inherited from
\* Object.prototype (the only all-lowercase ones are constructor and
\* __proto__), else undefined
GetMapping(key) ==
    IF key \in DOMAIN countryMappings THEN Str(countryMappings[key])
    ELSE IF key = "constructor" THEN ObjectFunction
    ELSE IF key = "__proto__" THEN ObjectPrototype
    ELSE Undefined

\* normalizeCountryName(name); name.toLowerCase is not a function when name
\* is a truthy value that is not a string
normalizeCountryName(name) ==
    IF ~Truthy(name) THEN Return(Str(""))
    ELSE IF name.t # "string" THEN ThrowTypeError
    ELSE LET normalized == trim(toLowerCase(name.v))
         IN  Return(Or(GetMapping(normalized), Str(normalized)))

\* the containment test of one direction only
containmentMatchOneWay(norm1, norm2) ==
    IF includes(norm1, norm2) /\ Len(norm2) >= 4
    THEN ~(norm2 = "oman" /\ norm1 = "romania")
    ELSE FALSE

\* the containment tests without the Romania/Oman exclusion
containmentMatchNoExclusion(norm1, norm2) ==
    \/ includes(norm1, norm2) /\ Len(norm2) >= 4
    \/ includes(norm2, norm1) /\ Len(norm1) >= 4

\* the containment tests without the length floor
containmentMatchNoFloor(norm1, norm2) ==
    IF includes(norm1, norm2)
    THEN ~(norm2 = "oman" /\ norm1 = "romania")
    ELSE IF includes(norm2, norm1)
    THEN ~(norm1 = "oman" /\ norm2 = "romania")
    ELSE FALSE

\* the two containment tests with their length floor and the Romania/Oman
\* exclusion; norm1 and norm2 are strings here
containmentMatch(norm1, norm2) ==
    IF includes(norm1, norm2) /\ Len(norm2) >= 4
    THEN ~(norm2 = "oman" /\ norm1 = "romania")
    ELSE IF includes(norm2, norm1) /\ Len(norm1) >= 4
    THEN ~(norm1 = "oman" /\ norm2 = "romania")
    ELSE FALSE

\* a cross-check that resolves only norm1 a second time
crossCheckFirstOnly(norm1, norm2) ==
    LET c1 == normalizeCountryName(norm1)
    IN  IF c1.threw THEN MatchThrew ELSE Return(c1.val = norm2)

\* a cross-check that resolves nothing a second time
crossCheckNever(norm1, norm2) == Return(FALSE)

\* "Cross-check both directions": the second normalization of each side
\* against the first normalization of the other
crossCheck(norm1, norm2) ==
    LET c1 == normalizeCountryName(norm1)
    IN  IF c1.threw THEN MatchThrew
        ELSE IF c1.val = norm2 THEN Return(TRUE)
        ELSE LET c2 == normalizeCountryName(norm2)
             IN  IF c2.threw THEN MatchThrew ELSE Return(c2.val = norm1)

\* countriesMatch after its guard: direct match, cross-check, containment
matchNormalized(name1, name2) ==
    LET n1 == normalizeCountryName(name1)
        n2 == normalizeCountryName(name2)
    IN  IF n1.threw \/ n2.threw THEN MatchThrew
        ELSE IF n1.val = n2.val THEN Return(TRUE)
        ELSE LET cross == crossCheck(n1.val, n2.val)
             IN  IF cross.threw THEN MatchThrew
                 ELSE IF cross.val THEN Return(TRUE)
                 ELSE Return(containmentMatch(n1.val.v, n2.val.v))

\* the calls of a matcher that resolves norm1 a third time
normalizeCallsThreePasses(name1, name2) ==
    LET n1 == normalizeCountryName(name1)
        c1 == normalizeCountryName(n1.val)
    IN  <<[operand |-> 1, arg |-> name1], [operand |-> 2, arg |-> name2],
          [operand |-> 1, arg |-> n1.val], [operand |-> 1, arg |-> c1.val]>>

\* the calls of normalizeCountryName that countriesMatch(name1, name2)
\* makes, in order: the operand resolved and the argument passed
normalizeCalls(name1, name2) ==
    IF ~Truthy(name1) \/ ~Truthy(name2) THEN <<>>
    ELSE LET n1 == normalizeCountryName(name1)
             first == <<[operand |-> 1, arg |-> name1]>>
         IN  IF n1.threw THEN first
             ELSE LET n2 == normalizeCountryName(name2)
                      both == Append(first, [operand |-> 2, arg |-> name2])
                  IN  IF n2.threw \/ n1.val = n2.val THEN both
                      ELSE LET c1 == normalizeCountryName(n1.val)
                               third == Append(both, [operand |-> 1, arg |-> n1.val])
                           IN  IF c1.threw \/ c1.val = n2.val THEN third
                               ELSE Append(third, [operand |-> 2, arg |-> n2.val])

\* countriesMatch without its guard on empty and missing names
countriesMatchUnguarded(name1, name2) == matchNormalized(name1, name2)

\* countriesMatch(name1, name2): Return(TRUE), Return(FALSE) or MatchThrew
countriesMatch(name1, name2) ==
    IF ~Truthy(name1) \/ ~Truthy(name2) THEN Return(FALSE)
    ELSE matchNormalized(name1, name2)

(***************************************************************************)
(* The inputs of the matcher.                                              *)
(***************************************************************************)
\* every key and every value of the alias table
TableNames ==
    DOMAIN countryMappings \cup {countryMappings[k] : k \in DOMAIN countryMappings}

\* the names the documentation of the matcher uses, as a user types them
DocumentedNames ==
    {"USA", "United States of America", "United Kingdom", "Britain",
     "Czechia", "Czech Republic", "Romania", "Oman", "Chad", "Ch",
     "South Korea", "North Korea"}

\* names outside the table: containment pairs, short names, property names
\* of Object.prototype, the empty and the whitespace-only string
OtherNames ==
    {"niger", "nigeria", "guinea", "papua new guinea", "korea", "man",
     "constructor", "__proto__", "", " "}

RECURSIVE Spaces(_)
Spaces(n) == IF n = 0 THEN "" ELSE " " \o Spaces(n - 1)

\* s in its own, lower and upper casing with up to MaxPad blanks on each side
Variants(s) ==
    {Spaces(l) \o c \o Spaces(r) :
        l \in 0..MaxPad, r \in 0..MaxPad, c \in {s, toLowerCase(s), toUpperCase(s)}}

PaddedNames == UNION {Variants(s) : s \in {"Romania", "Oman", "USA", "constructor"}}

Names ==
    {Str(s) : s \in TableNames \cup DocumentedNames \cup OtherNames \cup PaddedNames}
    \cup {Undefined}

(***************************************************************************)
(* The map script: visited sets, feature names, the two scans              *)
(* (src/src/components/MapView.tsx, src/unnamed/part_002).                  *)
(***************************************************************************)
\* the two revisions of the map component that define loadPolygons
Revisions == {"MapView.tsx", "part_002"}

\* the elements of a sequence
Range(seq) == {seq[i] : i \in DOMAIN seq}

\* Array.from(new Set(array)): first occurrences, in order
RECURSIVE Dedupe(_)
Dedupe(seq) ==
    IF seq = <<>> THEN <<>>
    ELSE LET rest == Dedupe(SubSeq(seq, 1, Len(seq) - 1))
             last == seq[Len(seq)]
         IN  IF last \in Range(rest) THEN rest ELSE Append(rest, last)

\* Array.prototype.map and filter on location lists
RECURSIVE CountriesOf(_)
CountriesOf(locs) ==
    IF locs = <<>> THEN <<>>
    ELSE <<locs[1].country>> \o CountriesOf(Tail(locs))

RECURSIVE RegionStringsOf(_)
RegionStringsOf(locs) ==
    IF locs = <<>> THEN <<>>
    ELSE (IF Truthy(locs[1].region) /\ trim(locs[1].region.v) # ""
          THEN <<locs[1].region.v \o ", " \o locs[1].country>>
          ELSE <<>>) \o RegionStringsOf(Tail(locs))

\* const visitedCountries: the distinct country strings
visitedCountries(locs) == Dedupe(CountriesOf(locs))

\* const visitedRegions: the distinct strings "region, country"
visitedRegions(locs) == Dedupe(RegionStringsOf(locs))

\* feature.properties[key]; undefined when the property is absent
Prop(feature, key) ==
    IF key \in DOMAIN feature.properties THEN Str(feature.properties[key])
    ELSE Undefined

\* a || b || c || d || e over the property keys, in order
RECURSIVE FirstTruthy(_, _)
FirstTruthy(feature, keys) ==
    IF Len(keys) = 1 THEN Prop(feature, keys[1])
    ELSE Or(Prop(feature, keys[1]), FirstTruthy(feature, Tail(keys)))

\* countryName of a country feature
countryNameOf(country) ==
    FirstTruthy(country, <<"name", "ADMIN", "NAME", "NAME_EN", "name_en">>)

\* regionName and countryName of an admin-1 feature
regionNameOf(region) ==
    FirstTruthy(region, <<"name", "NAME", "NAME_1", "name_en", "NAME_EN">>)

regionCountryNameOf(region) ==
    FirstTruthy(region, <<"admin", "ADMIN", "NAME_0", "admin_0", "country">>)

\* MapView.tsx: the loop over visitedCountries with the three exact
\* comparisons; countryName.trim() throws when countryName is undefined
RECURSIVE isVisitedExact(_, _)
isVisitedExact(countryName, vc) ==
    IF vc = <<>> THEN Return(FALSE)
    ELSE IF countryName = Str(vc[1]) \/ countryName = Str(trim(vc[1])) THEN Return(TRUE)
    ELSE IF countryName.t # "string" THEN MatchThrew
    ELSE IF vc[1] = trim(countryName.v) THEN Return(TRUE)
    ELSE isVisitedExact(countryName, Tail(vc))

\* part_002: the loop over visitedCountries with countriesMatch
RECURSIVE isVisitedFuzzy(_, _)
isVisitedFuzzy(countryName, vc) ==
    IF vc = <<>> THEN Return(FALSE)
    ELSE LET m == countriesMatch(countryName, Str(vc[1]))
         IN  IF m.threw THEN MatchThrew
             ELSE IF m.val THEN Return(TRUE)
             ELSE isVisitedFuzzy(countryName, Tail(vc))

isVisited(rev, countryName, vc) ==
    IF rev = "MapView.tsx" THEN isVisitedExact(countryName, vc)
    ELSE isVisitedFuzzy(countryName, vc)

\* countriesData.features.forEach(...): the layers added, and whether the
\* callback threw (which ends the forEach at that feature)
RECURSIVE scanCountriesFrom(_, _, _, _, _)
scanCountriesFrom(rev, features, vc, i, acc) ==
    IF i > Len(features) THEN [threw |-> FALSE, layers |-> acc]
    ELSE LET m == isVisited(rev, countryNameOf(features[i]), vc)
         IN  IF m.threw THEN [threw |-> TRUE, layers |-> acc]
             ELSE scanCountriesFrom(rev, features, vc, i + 1,
                        IF m.val THEN acc \cup {features[i]} ELSE acc)

scanCountries(rev, features, vc) == scanCountriesFrom(rev, features, vc, 1, {})

(***************************************************************************)
(* The data the map script can be given.                                   *)
(***************************************************************************)
\* sequences of distinct elements of S, of length at most n
RECURSIVE ListsOver(_, _)
ListsOver(S, n) ==
    IF n = 0 THEN {<<>>}
    ELSE LET shorter == ListsOver(S, n - 1)
         IN  shorter \cup {Append(l, x) : l \in shorter, x \in S}

DistinctLists(S, n) == {l \in ListsOver(S, n) : Cardinality(Range(l)) = Len(l)}

\* stored locations: country is a non-empty string, region is optional
LocationPool ==
    {[country |-> "Romania", region |-> Undefined],
     [country |-> "USA", region |-> Str("California")],
     [country |-> "United States of America", region |-> Str(" ")]}

LocationLists == DistinctLists(LocationPool, MaxLocations)

\* country features; the last one has none of the candidate name fields
CountryFeaturePool ==
    {[properties |-> ("name" :> "Romania")],
     [properties |-> ("ADMIN" :> "United States of America")],
     [properties |-> ("NAME" :> "Oman" @@ "name_en" :> "Sultanate of Oman")],
     [properties |-> ("ISO_A3" :> "ATA")]}

CountryFeatureLists == DistinctLists(CountryFeaturePool, MaxFeatures)

\* admin-1 features; the last one has no country field
RegionFeaturePool ==
    {[properties |-> ("name" :> "California" @@ "admin" :> "United States of America")],
     [properties |-> ("name" :> "Texas" @@ "admin" :> "United States of America")],
     [properties |-> ("NAME_1" :> "California")]}

RegionFeatureLists == DistinctLists(RegionFeaturePool, MaxFeatures)

countriesUrl ==
    "https://raw.githubusercontent.com/datasets/geo-countries/master/data/countries.geojson"

admin1Sources ==
    <<"https://d2ad6b4ur7yvpq.cloudfront.net/naturalearth-3.3.0/ne_110m_admin_1_states_provinces_shp.geojson",
      "https://raw.githubusercontent.com/nvkelso/natural-earth-vector/master/geojson/ne_110m_admin_1_states_provinces_shp.geojson">>

(***************************************************************************)
(* State.                                                                  *)
(***************************************************************************)
VARIABLES
    name1,          \* first argument of countriesMatch / the name being normalized
    name2,          \* second argument of countriesMatch
    matched,        \* <<>> or <<completion of countriesMatch(name1, name2)>>
    passes,         \* completions of normalizeCountryName applied again and again to name1
    calls,          \* the calls of normalizeCountryName made by countriesMatch(name1, name2)
    revision,       \* the revision of the map component that is rendered
    locations,      \* the locations prop, serialized into the script
    pc,             \* where loadPolygons is suspended
    requests,       \* the URLs passed to fetch so far, in order
    countriesData,  \* <<>> or <<features of the parsed country collection>>
    sourceIdx,      \* position of the for loop in admin1Sources; 0 before the loop
    admin1Data,     \* <<>> or <<features of the admin-1 collection parsed last>>
    countryLayers,  \* country features added to the map with L.geoJSON
    regionLayers,   \* admin-1 features added to the map with L.geoJSON
    circles,        \* countries given a fallback L.circle
    consoleErrors,  \* the errors passed to console.error, in order
    inFlight,       \* the URLs whose fetch or body read has not settled yet
    stored,         \* <<>> or <<the list saved under STORAGE_KEY>>
    loads,          \* the calls of MapScreen's loadLocations, in the order they started
    isLoading,      \* the isLoading state of MapScreen
    ops,            \* the calls of addLocation, updateLocation and deleteLocation, in the order they started
    now,            \* the time, in ticks
    searchText,     \* the searchText state of LocationAutocomplete
    suggestions,    \* its suggestions state
    showSuggestions, \* its showSuggestions state
    isSearching,    \* its isLoading state
    timers,         \* the timers set with setTimeout that have not run and were not cleared
    timeout,        \* the `timeout` variable of debounce: the id of the timer set last, 0 before
    searches,       \* the queries of the searchLocations calls that have not settled
    debouncedCalls, \* the calls of debouncedSearch: time and argument
    funcRuns        \* the runs of the function wrapped by debounce: time and argument

matchVars == <<name1, name2, matched, passes, calls>>
mapVars == <<revision, locations, pc, requests, countriesData, sourceIdx,
             admin1Data, countryLayers, regionLayers, circles, consoleErrors,
             inFlight>>
vars == <<name1, name2, matched, passes, calls, revision, locations, pc, requests,
          countriesData, sourceIdx, admin1Data, countryLayers, regionLayers,
          circles, consoleErrors, inFlight, stored, loads, isLoading, ops,
          now, searchText, suggestions, showSuggestions, isSearching, timers,
          timeout, searches, debouncedCalls, funcRuns>>
storageVars == <<ops>>
searchVars == <<now, searchText, suggestions, showSuggestions, isSearching,
                timers, timeout, searches, debouncedCalls, funcRuns>>
screenVars == <<stored, loads, isLoading>>

\* the matcher before any call
MatchIdle ==
    /\ matched = <<>>
    /\ passes = <<>>
    /\ calls = <<>>

\* MapScreen not mounted: nothing saved, no load started
ScreenIdle ==
    /\ stored = <<>>
    /\ loads = <<>>
    /\ isLoading = TRUE

\* no call of LocationStorage under way
StorageIdle ==
    ops = <<>>

\* LocationAutocomplete as it is mounted, with the default value
SearchIdle ==
    /\ now = 0
    /\ searchText = ""
    /\ suggestions = <<>>
    /\ showSuggestions = FALSE
    /\ isSearching = FALSE
    /\ timers = {}
    /\ timeout = 0
    /\ searches = {}
    /\ debouncedCalls = <<>>
    /\ funcRuns = <<>>

\* the map script before loadPolygons is called
MapIdle ==
    /\ pc = "idle"
    /\ requests = <<>>
    /\ countriesData = <<>>
    /\ sourceIdx = 0
    /\ admin1Data = <<>>
    /\ countryLayers = {}
    /\ regionLayers = {}
    /\ circles = {}
    /\ consoleErrors = <<>>
    /\ inFlight = {}

(***************************************************************************)
(* The matcher called on its own.                                          *)
(***************************************************************************)
InitMatch ==
    /\ name1 \in Names
    /\ name2 \in Names
    /\ MatchIdle
    /\ revision = "part_002"
    /\ locations = <<>>
    /\ MapIdle
    /\ ScreenIdle
    /\ StorageIdle
    /\ SearchIdle

\* the caller runs countriesMatch(name1, name2)
CallCountriesMatch ==
    /\ matched = <<>>
    /\ matched' = <<countriesMatch(name1, name2)>>
    /\ calls' = normalizeCalls(name1, name2)
    /\ UNCHANGED <<name1, name2, passes>>
    /\ UNCHANGED <<mapVars, screenVars, storageVars, searchVars>>

\* the caller normalizes name1, then normalizes the result again
CallNormalize ==
    /\ Len(passes) < MaxPasses
    /\ passes # <<>> => ~passes[Len(passes)].threw
    /\ passes' = Append(passes,
                    normalizeCountryName(IF passes = <<>> THEN name1
                                         ELSE passes[Len(passes)].val))
    /\ UNCHANGED <<name1, name2, matched, calls>>
    /\ UNCHANGED <<mapVars, screenVars, storageVars, searchVars>>

NextMatch == CallCountriesMatch \/ CallNormalize

SpecMatch == InitMatch /\ [][NextMatch]_vars

(***************************************************************************)
(* loadPolygons: one action per resumption of the async function.          *)
(***************************************************************************)
\* isRegionVisited compared on the country names only
isRegionVisitedCountryOnly(regionName, countryName) ==
    Return(\E i \in DOMAIN locations :
              /\ Truthy(locations[i].region)
              /\ countriesMatch(countryName, Str(locations[i].country)).val)

\* isRegionVisited(regionName, countryName): the script declares no such
\* function, so evaluating the call throws a ReferenceError
isRegionVisited(regionName, countryName) == [threw |-> TRUE, val |-> FALSE]

\* admin1Data.features.forEach(...): the layers added, and whether the
\* callback threw (which ends the forEach at that feature)
RECURSIVE scanRegionsFrom(_, _, _)
scanRegionsFrom(features, i, acc) ==
    IF i > Len(features) THEN [threw |-> FALSE, layers |-> acc]
    ELSE LET regionName == regionNameOf(features[i])
             countryName == regionCountryNameOf(features[i])
         IN  IF ~(Truthy(regionName) /\ Truthy(countryName))
             THEN scanRegionsFrom(features, i + 1, acc)
             ELSE LET m == isRegionVisited(regionName, countryName)
                  IN  IF m.threw THEN [threw |-> TRUE, layers |-> acc]
                      ELSE scanRegionsFrom(features, i + 1,
                                IF m.val THEN acc \cup {features[i]} ELSE acc)

scanRegions(features) == scanRegionsFrom(features, 1, {})

\* the region block is entered whatever visitedRegions holds
regionsWantedAlways(rev, locs) == rev = "MapView.tsx"

\* the region block is entered when visitedCountries is not empty
regionsWantedByCountries(rev, locs) ==
    rev = "MapView.tsx" /\ Len(visitedCountries(locs)) > 0

\* if (visitedRegions.length > 0); part_002 has no region block
regionsWanted(rev, locs) ==
    rev = "MapView.tsx" /\ Len(visitedRegions(locs)) > 0

\* the URL of the await that loadPolygons is suspended in
CurrentUrl ==
    IF pc \in {"fetchCountries", "jsonCountries"} THEN countriesUrl
    ELSE admin1Sources[sourceIdx]

\* the outer catch that logs the error and draws nothing
FallbackWithoutCircles(error) ==
    /\ consoleErrors' = Append(consoleErrors, error)
    /\ inFlight' = inFlight \ {CurrentUrl}
    /\ circles' = {}
    /\ pc' = "done"
    /\ UNCHANGED <<requests, sourceIdx>>

\* the outer catch: the error is logged, then one circle per visited
\* country that has a location
Fallback(error) ==
    /\ consoleErrors' = Append(consoleErrors, error)
    /\ inFlight' = inFlight \ {CurrentUrl}
    /\ circles' = {c \in Range(visitedCountries(locations)) :
                      \E i \in DOMAIN locations : locations[i].country = c}
    /\ pc' = "done"
    /\ UNCHANGED <<requests, sourceIdx>>

\* the region block that walks admin1Sources from its last entry
StartRegionLoopFromLast ==
    /\ IF regionsWanted(revision, locations)
       THEN /\ sourceIdx' = 1
            /\ requests' = Append(requests, admin1Sources[Len(admin1Sources)])
            /\ inFlight' = (inFlight \ {CurrentUrl}) \cup {admin1Sources[Len(admin1Sources)]}
            /\ pc' = "fetchAdmin1"
       ELSE /\ pc' = "done"
            /\ inFlight' = inFlight \ {CurrentUrl}
            /\ UNCHANGED <<requests, sourceIdx>>
    /\ UNCHANGED <<circles, consoleErrors>>

\* the region block that fetches every source without awaiting the first
StartRegionLoopAllAtOnce ==
    /\ IF regionsWanted(revision, locations)
       THEN /\ sourceIdx' = 1
            /\ requests' = requests \o admin1Sources
            /\ inFlight' = (inFlight \ {CurrentUrl}) \cup Range(admin1Sources)
            /\ pc' = "fetchAdmin1"
       ELSE /\ pc' = "done"
            /\ inFlight' = inFlight \ {CurrentUrl}
            /\ UNCHANGED <<requests, sourceIdx>>
    /\ UNCHANGED <<circles, consoleErrors>>

\* the code after the country block: enter the loop over admin1Sources and
\* fetch the first source, or return
StartRegionLoop ==
    /\ IF regionsWanted(revision, locations)
       THEN /\ sourceIdx' = 1
            /\ requests' = Append(requests, admin1Sources[1])
            /\ inFlight' = (inFlight \ {CurrentUrl}) \cup {admin1Sources[1]}
            /\ pc' = "fetchAdmin1"
       ELSE /\ pc' = "done"
            /\ inFlight' = inFlight \ {CurrentUrl}
            /\ UNCHANGED <<requests, sourceIdx>>
    /\ UNCHANGED <<circles, consoleErrors>>

\* the inner catch: the error is logged and the loop goes on
CatchInLoop(error) == consoleErrors' = Append(consoleErrors, error)

\* the next iteration of the loop over admin1Sources, or return
NextSource ==
    IF sourceIdx < Len(admin1Sources)
    THEN /\ sourceIdx' = sourceIdx + 1
         /\ requests' = Append(requests, admin1Sources[sourceIdx + 1])
         /\ inFlight' = (inFlight \ {CurrentUrl}) \cup {admin1Sources[sourceIdx + 1]}
         /\ pc' = "fetchAdmin1"
    ELSE /\ pc' = "done"
         /\ inFlight' = inFlight \ {CurrentUrl}
         /\ UNCHANGED <<requests, sourceIdx>>

\* loadPolygons() is called and suspends in the country fetch
loadPolygons ==
    /\ pc = "idle"
    /\ requests' = Append(requests, countriesUrl)
    /\ inFlight' = inFlight \cup {countriesUrl}
    /\ pc' = "fetchCountries"
    /\ UNCHANGED <<revision, locations, countriesData, sourceIdx, admin1Data,
                   countryLayers, regionLayers, circles, consoleErrors>>
    /\ UNCHANGED <<matchVars, screenVars, storageVars, searchVars>>

\* the country fetch rejects
countriesFetchRejected ==
    /\ pc = "fetchCountries"
    /\ Fallback("NetworkError")
    /\ UNCHANGED <<revision, locations, countriesData, admin1Data,
                   countryLayers, regionLayers>>
    /\ UNCHANGED <<matchVars, screenVars, storageVars, searchVars>>

\* the country fetch resolves with a response, ok or not
countriesFetchResolved ==
    /\ pc = "fetchCountries"
    /\ \E ok \in BOOLEAN :
          IF ok
          THEN /\ pc' = "jsonCountries"
               /\ UNCHANGED <<requests, sourceIdx, circles, consoleErrors, inFlight>>
          ELSE StartRegionLoop
    /\ UNCHANGED <<revision, locations, countriesData, admin1Data,
                   countryLayers, regionLayers>>
    /\ UNCHANGED <<matchVars, screenVars, storageVars, searchVars>>

\* the body of the country response is not JSON
countriesJsonRejected ==
    /\ pc = "jsonCountries"
    /\ Fallback("SyntaxError")
    /\ UNCHANGED <<revision, locations, countriesData, admin1Data,
                   countryLayers, regionLayers>>
    /\ UNCHANGED <<matchVars, screenVars, storageVars, searchVars>>

\* the country collection is parsed and scanned
countriesJsonResolved ==
    /\ pc = "jsonCountries"
    /\ \E features \in CountryFeatureLists :
          LET scan == scanCountries(revision, features, visitedCountries(locations))
          IN  /\ countriesData' = <<features>>
              /\ countryLayers' = countryLayers \cup scan.layers
              /\ IF scan.threw THEN Fallback("TypeError") ELSE StartRegionLoop
    /\ UNCHANGED <<revision, locations, admin1Data, regionLayers>>
    /\ UNCHANGED <<matchVars, screenVars, storageVars, searchVars>>

\* a rejected admin-1 fetch that reaches the outer catch
admin1FetchRejectedToOuterCatch ==
    /\ pc = "fetchAdmin1"
    /\ Fallback("NetworkError")
    /\ UNCHANGED <<revision, locations, countriesData, admin1Data,
                   countryLayers, regionLayers>>
    /\ UNCHANGED <<matchVars, screenVars, storageVars, searchVars>>

\* the fetch of the current admin-1 source rejects
admin1FetchRejected ==
    /\ pc = "fetchAdmin1"
    /\ CatchInLoop("NetworkError")
    /\ NextSource
    /\ UNCHANGED <<revision, locations, countriesData, admin1Data,
                   countryLayers, regionLayers, circles>>
    /\ UNCHANGED <<matchVars, screenVars, storageVars, searchVars>>

\* the fetch of the current admin-1 source resolves, ok or not
admin1FetchResolved ==
    /\ pc = "fetchAdmin1"
    /\ \E ok \in BOOLEAN :
          IF ok
          THEN /\ pc' = "jsonAdmin1"
               /\ UNCHANGED <<requests, sourceIdx, inFlight>>
          ELSE NextSource
    /\ UNCHANGED <<revision, locations, countriesData, admin1Data,
                   countryLayers, regionLayers, circles, consoleErrors>>
    /\ UNCHANGED <<matchVars, screenVars, storageVars, searchVars>>

\* the body of the admin-1 response is not JSON
admin1JsonRejected ==
    /\ pc = "jsonAdmin1"
    /\ CatchInLoop("SyntaxError")
    /\ NextSource
    /\ UNCHANGED <<revision, locations, countriesData, admin1Data,
                   countryLayers, regionLayers, circles>>
    /\ UNCHANGED <<matchVars, screenVars, storageVars, searchVars>>

\* the admin-1 collection is parsed and scanned
admin1JsonResolved ==
    /\ pc = "jsonAdmin1"
    /\ \E features \in RegionFeatureLists :
          LET scan == scanRegions(features)
          IN  /\ admin1Data' = <<features>>
              /\ regionLayers' = regionLayers \cup scan.layers
              /\ IF scan.threw
                 THEN CatchInLoop("ReferenceError") /\ NextSource
                 ELSE /\ UNCHANGED consoleErrors
                      /\ IF Cardinality(scan.layers) > 0
                         THEN /\ pc' = "done"
                              /\ inFlight' = inFlight \ {CurrentUrl}
                              /\ UNCHANGED <<requests, sourceIdx>>
                         ELSE NextSource
    /\ UNCHANGED <<revision, locations, countriesData, countryLayers, circles>>
    /\ UNCHANGED <<matchVars, screenVars, storageVars, searchVars>>

InitMap ==
    /\ revision \in Revisions
    /\ locations \in LocationLists
    /\ MapIdle
    /\ name1 = Undefined
    /\ name2 = Undefined
    /\ MatchIdle
    /\ ScreenIdle
    /\ StorageIdle
    /\ SearchIdle

NextMap ==
    \/ loadPolygons
    \/ countriesFetchRejected
    \/ countriesFetchResolved
    \/ countriesJsonRejected
    \/ countriesJsonResolved
    \/ admin1FetchRejected
    \/ admin1FetchResolved
    \/ admin1JsonRejected
    \/ admin1JsonResolved

SpecMap == InitMap /\ [][NextMap]_vars

(***************************************************************************)
(* MapScreen: every focus of the screen calls loadLocations, which reads   *)
(* the saved list and hands it to the map component.  The other screens    *)
(* save new lists in the meantime.  The WebView is rendered from the       *)
(* locations state only while isLoading is false, and a changed list       *)
(* changes its html, so the map script always starts afresh from the       *)
(* current locations: the map variables stay as before loadPolygons.       *)
(***************************************************************************)
\* the lists another screen can have saved
StoredLists == DistinctLists(LocationPool, MaxStored)

\* useFocusEffect runs loadLocations up to its await
loadLocations ==
    /\ Len(loads) < MaxCycles
    /\ isLoading' = TRUE
    /\ loads' = Append(loads, [state |-> "pending", value |-> <<>>])
    /\ UNCHANGED <<stored, locations>>
    /\ UNCHANGED <<revision, pc, requests, countriesData, sourceIdx, admin1Data,
                   countryLayers, regionLayers, circles, consoleErrors, inFlight>>
    /\ UNCHANGED <<matchVars, storageVars, searchVars>>

\* LocationStorage.loadLocations of call i reads the store: the saved list,
\* or [] when nothing is saved or when getItem or JSON.parse fails
LocationStorage_loadLocations(i) ==
    /\ loads[i].state = "pending"
    /\ \E failed \in BOOLEAN :
          loads' = [loads EXCEPT ![i] =
                      [state |-> "read",
                       value |-> IF failed \/ stored = <<>> THEN <<>> ELSE stored[1]]]
    /\ UNCHANGED <<stored, isLoading, locations>>
    /\ UNCHANGED <<revision, pc, requests, countriesData, sourceIdx, admin1Data,
                   countryLayers, regionLayers, circles, consoleErrors, inFlight>>
    /\ UNCHANGED <<matchVars, storageVars, searchVars>>

\* call i resumes after its await: setLocations, then the finally block
loadLocationsResumed(i) ==
    /\ loads[i].state = "read"
    /\ locations' = loads[i].value
    /\ isLoading' = FALSE
    /\ loads' = [loads EXCEPT ![i].state = "done"]
    /\ UNCHANGED stored
    /\ UNCHANGED <<revision, pc, requests, countriesData, sourceIdx, admin1Data,
                   countryLayers, regionLayers, circles, consoleErrors, inFlight>>
    /\ UNCHANGED <<matchVars, storageVars, searchVars>>

\* another screen saves a different list
saveLocations(l) ==
    /\ stored # <<l>>
    /\ stored' = <<l>>
    /\ UNCHANGED <<loads, isLoading, locations>>
    /\ UNCHANGED <<revision, pc, requests, countriesData, sourceIdx, admin1Data,
                   countryLayers, regionLayers, circles, consoleErrors, inFlight>>
    /\ UNCHANGED <<matchVars, storageVars, searchVars>>

InitScreen ==
    /\ stored \in {<<>>} \cup {<<l>> : l \in StoredLists}
    /\ loads = <<>>
    /\ isLoading = TRUE
    /\ locations = <<>>
    /\ revision = "MapView.tsx"
    /\ MapIdle
    /\ name1 = Undefined
    /\ name2 = Undefined
    /\ MatchIdle
    /\ StorageIdle
    /\ SearchIdle

NextScreen ==
    \/ loadLocations
    \/ \E i \in DOMAIN loads : LocationStorage_loadLocations(i)
    \/ \E i \in DOMAIN loads : loadLocationsResumed(i)
    \/ \E l \in StoredLists : saveLocations(l)

SpecScreen == InitScreen /\ [][NextScreen]_vars

(***************************************************************************)
(* LocationStorage (src/src/utils/locationStorage.ts): addLocation,        *)
(* updateLocation and deleteLocation each load the saved list, change it   *)
(* in memory and save it.  A call is suspended at its two awaits; calls    *)
(* started from different screens interleave there.  A record carries the  *)
(* string fields id, country and notes, which JSON.stringify and           *)
(* JSON.parse give back unchanged.                                         *)
(***************************************************************************)
\* the records that can be in the store; two of them share an id
RecordPool ==
    {[id |-> "1", country |-> "Romania", notes |-> ""],
     [id |-> "1", country |-> "Oman", notes |-> ""],
     [id |-> "2", country |-> "USA", notes |-> ""]}

\* the lists that can be saved before the first call
RecordLists == DistinctLists(RecordPool, MaxRecords)

\* the locations handed to addLocation
NewLocations ==
    {[id |-> "3", country |-> "Chad", notes |-> ""],
     [id |-> "4", country |-> "Niger", notes |-> "dunes"]}

\* the ids handed to updateLocation and deleteLocation: one that two saved
\* records share and one that none has until it is added
LocationIds == {"1", "3"}

\* the Partial<Location> values handed to updateLocation
Partials ==
    {[notes |-> "seen"], [id |-> "2", country |-> "Chad"]}

\* no argument
NoArg == [f \in {} |-> ""]

\* existingLocations.findIndex(loc => loc.id === locationId); 0 stands for -1
findIndex(list, locationId) ==
    IF \E i \in DOMAIN list : list[i].id = locationId
    THEN CHOOSE i \in DOMAIN list :
            /\ list[i].id = locationId
            /\ \A j \in DOMAIN list : list[j].id = locationId => i <= j
    ELSE 0

\* existingLocations.filter(loc => loc.id !== locationId)
filterOut(list, locationId) ==
    SelectSeq(list, LAMBDA loc : loc.id # locationId)

\* a spread that keeps the fields of the stored record
spreadKeepingOld(location, updatedLocation) == location @@ updatedLocation

\* {...existingLocations[locationIndex], ...updatedLocation}
spread(location, updatedLocation) == updatedLocation @@ location

\* the list updateLocation saves
mergeAt(list, i, updatedLocation) ==
    [list EXCEPT ![i] = spread(list[i], updatedLocation)]

\* a new call, suspended at `await this.loadLocations()`
NewOp(op, locationId, arg) ==
    [op |-> op, id |-> locationId, arg |-> arg, state |-> "loading",
     list |-> <<>>, before |-> stored, readFailed |-> FALSE, error |-> ""]

\* what is left unchanged by every step of LocationStorage
StorageFrame ==
    /\ UNCHANGED <<loads, isLoading>>
    /\ UNCHANGED mapVars
    /\ UNCHANGED matchVars
    /\ UNCHANGED searchVars

addLocation(location) ==
    /\ Len(ops) < MaxOps
    /\ ops' = Append(ops, NewOp("add", location.id, location))
    /\ UNCHANGED stored
    /\ StorageFrame

updateLocation(locationId, updatedLocation) ==
    /\ Len(ops) < MaxOps
    /\ ops' = Append(ops, NewOp("update", locationId, updatedLocation))
    /\ UNCHANGED stored
    /\ StorageFrame

deleteLocation(locationId) ==
    /\ Len(ops) < MaxOps
    /\ ops' = Append(ops, NewOp("delete", locationId, NoArg))
    /\ UNCHANGED stored
    /\ StorageFrame

\* the error each operation throws from its catch block
FailureOf(op) ==
    IF op = "add" THEN "Failed to add location"
    ELSE IF op = "update" THEN "Failed to update location"
    ELSE "Failed to delete location"

\* an update that saves the list as it was when the id is not found
afterLoadLenient(o, existingLocations) ==
    IF o.op = "add"
    THEN [o EXCEPT !.state = "saving", !.list = Append(existingLocations, o.arg)]
    ELSE IF o.op = "delete"
    THEN [o EXCEPT !.state = "saving", !.list = filterOut(existingLocations, o.id)]
    ELSE IF findIndex(existingLocations, o.id) = 0
    THEN [o EXCEPT !.state = "saving", !.list = existingLocations]
    ELSE [o EXCEPT !.state = "saving",
                   !.list = mergeAt(existingLocations,
                                    findIndex(existingLocations, o.id), o.arg)]

\* the code of a call between its two awaits, given what loadLocations
\* returned: the list to save, or the throw of updateLocation
afterLoad(o, existingLocations) ==
    IF o.op = "add"
    THEN [o EXCEPT !.state = "saving", !.list = Append(existingLocations, o.arg)]
    ELSE IF o.op = "delete"
    THEN [o EXCEPT !.state = "saving", !.list = filterOut(existingLocations, o.id)]
    ELSE IF findIndex(existingLocations, o.id) = 0
    THEN [o EXCEPT !.state = "threw", !.error = FailureOf("update")]
    ELSE [o EXCEPT !.state = "saving",
                   !.list = mergeAt(existingLocations,
                                    findIndex(existingLocations, o.id), o.arg)]

\* what loadLocations returns: the saved list, or [] when nothing is saved
\* and when getItem or JSON.parse fails
existingLocations(failed) ==
    IF failed \/ stored = <<>> THEN <<>> ELSE stored[1]

\* the loadLocations of call i settles and the call runs up to its save
loadLocationsSettled(i) ==
    /\ ops[i].state = "loading"
    /\ \E failed \in BOOLEAN :
          ops' = [ops EXCEPT ![i] =
                    afterLoad([ops[i] EXCEPT !.readFailed = failed],
                              existingLocations(failed))]
    /\ UNCHANGED stored
    /\ StorageFrame

\* setItem resolves: the list is stored and the call returns it
saved(i) ==
    /\ stored' = <<ops[i].list>>
    /\ ops' = [ops EXCEPT ![i].state = "returned"]

\* the saveLocations of call i settles: the list is written and returned,
\* or setItem rejects and the call throws
saveLocationsSettled(i) ==
    /\ ops[i].state = "saving"
    /\ \/ saved(i)
       \/ /\ ops' = [ops EXCEPT ![i].state = "threw",
                                ![i].error = FailureOf(ops[i].op)]
          /\ UNCHANGED stored
    /\ StorageFrame

InitStorage ==
    /\ stored \in {<<>>} \cup {<<l>> : l \in RecordLists}
    /\ ops = <<>>
    /\ loads = <<>>
    /\ isLoading = TRUE
    /\ locations = <<>>
    /\ revision = "MapView.tsx"
    /\ MapIdle
    /\ name1 = Undefined
    /\ name2 = Undefined
    /\ MatchIdle
    /\ SearchIdle

NextStorage ==
    \/ \E location \in NewLocations : addLocation(location)
    \/ \E locationId \in LocationIds, updatedLocation \in Partials :
          updateLocation(locationId, updatedLocation)
    \/ \E locationId \in LocationIds : deleteLocation(locationId)
    \/ \E i \in DOMAIN ops : loadLocationsSettled(i)
    \/ \E i \in DOMAIN ops : saveLocationsSettled(i)

SpecStorage == InitStorage /\ [][NextStorage]_vars

(***************************************************************************)
(* LocationAutocomplete (src/src/components/LocationAutocomplete.tsx) with *)
(* debounce and searchLocations (src/unnamed/part_000).  Time advances in  *)
(* ticks; a timer runs at its due time or later.                           *)
(***************************************************************************)
\* the texts typed into the input
Texts == {"", "r", "r ", "ro", "rom"}

\* the suggestions the geocoder returns for a query, or none
ResultsOf(query) == <<[displayName |-> "Romania", query |-> query]>>

\* results.slice(0, 8)
slice8(results) ==
    SubSeq(results, 1, IF Len(results) < 8 THEN Len(results) ELSE 8)

\* a clearTimeout that clears nothing
clearTimeoutNothing(pending, handle) == pending

\* clearTimeout(timeout)
clearTimeout(pending, handle) == {t \in pending : t.id # handle}

\* what is left unchanged by every step of LocationAutocomplete
SearchFrame ==
    /\ UNCHANGED <<stored, loads, isLoading>>
    /\ UNCHANGED storageVars
    /\ UNCHANGED mapVars
    /\ UNCHANGED matchVars

\* time passes
tick ==
    /\ now < MaxTime
    /\ now' = now + 1
    /\ UNCHANGED <<searchText, suggestions, showSuggestions, isSearching,
                   timers, timeout, searches, debouncedCalls, funcRuns>>
    /\ SearchFrame

\* the function returned by debounce is called with text
debounced(text) ==
    /\ timeout' = Len(debouncedCalls) + 1
    /\ timers' = clearTimeout(timers, timeout)
                    \cup {[id |-> Len(debouncedCalls) + 1, due |-> now + Wait, args |-> text]}
    /\ debouncedCalls' = Append(debouncedCalls, [at |-> now, args |-> text])

\* onChangeText
handleTextChange(text) ==
    /\ searchText' = text
    /\ showSuggestions' = TRUE
    /\ IF Len(trim(text)) >= 2
       THEN /\ Len(debouncedCalls) < MaxCalls
            /\ isSearching' = TRUE
            /\ debounced(text)
            /\ UNCHANGED suggestions
       ELSE /\ suggestions' = <<>>
            /\ isSearching' = FALSE
            /\ UNCHANGED <<timers, timeout, debouncedCalls>>
    /\ UNCHANGED <<now, searches, funcRuns>>
    /\ SearchFrame

\* a timer runs the wrapped function up to its await of searchLocations
timerRuns(t) ==
    /\ t \in timers
    /\ now >= t.due
    /\ timers' = timers \ {t}
    /\ funcRuns' = Append(funcRuns, [at |-> now, args |-> t.args])
    /\ IF Len(trim(t.args)) < 2
       THEN /\ suggestions' = <<>>
            /\ isSearching' = FALSE
            /\ UNCHANGED searches
       ELSE /\ searches' = searches \cup {t.args}
            /\ UNCHANGED <<suggestions, isSearching>>
    /\ UNCHANGED <<now, searchText, showSuggestions, timeout, debouncedCalls>>
    /\ SearchFrame

\* searchLocations(query) settles with the results or, after a failed
\* request, with []; the wrapped function resumes
searchSettled(query, found) ==
    /\ query \in searches
    /\ searches' = searches \ {query}
    /\ suggestions' = slice8(IF found THEN ResultsOf(query) ELSE <<>>)
    /\ isSearching' = FALSE
    /\ UNCHANGED <<now, searchText, showSuggestions, timers, timeout,
                   debouncedCalls, funcRuns>>
    /\ SearchFrame

\* a suggestion of the list shown is pressed
handleLocationSelect(location) ==
    /\ showSuggestions
    /\ searchText' = location.displayName
    /\ showSuggestions' = FALSE
    /\ suggestions' = <<>>
    /\ UNCHANGED <<now, isSearching, timers, timeout, searches,
                   debouncedCalls, funcRuns>>
    /\ SearchFrame

\* the close icon, rendered while searchText is not empty, is pressed
handleClearSearch ==
    /\ searchText # ""
    /\ searchText' = ""
    /\ suggestions' = <<>>
    /\ showSuggestions' = FALSE
    /\ isSearching' = FALSE
    /\ UNCHANGED <<now, timers, timeout, searches, debouncedCalls, funcRuns>>
    /\ SearchFrame

InitSearch ==
    /\ SearchIdle
    /\ StorageIdle
    /\ ScreenIdle
    /\ locations = <<>>
    /\ revision = "MapView.tsx"
    /\ MapIdle
    /\ name1 = Undefined
    /\ name2 = Undefined
    /\ MatchIdle

NextSearch ==
    \/ tick
    \/ \E text \in Texts : handleTextChange(text)
    \/ \E t \in timers : timerRuns(t)
    \/ \E query \in searches, found \in BOOLEAN : searchSettled(query, found)
    \/ \E i \in DOMAIN suggestions : handleLocationSelect(suggestions[i])
    \/ handleClearSearch

SpecSearch == InitSearch /\ [][NextSearch]_vars

(***************************************************************************)
(* Properties of the matcher, checked under SpecMatch.                     *)
(***************************************************************************)
\* first normalization of the two arguments, as strings
Canon1 == normalizeCountryName(name1).val.v
Canon2 == normalizeCountryName(name2).val.v

\* C1: countriesMatch is symmetric: countriesMatch(name1, name2) completes
\* exactly as countriesMatch(name2, name1) does, for every pair of inputs.
C1_Symmetric ==
    matched # <<>> => matched[1] = countriesMatch(name2, name1)

\* a containment match, which only one of the two containment tests finds
C1_Witness ==
    /\ name1 = Str("niger")
    /\ name2 = Str("nigeria")
    /\ matched = <<Return(TRUE)>>

\* C2: countriesMatch(a, a) is true for every non-empty string a, and
\* countriesMatch is false whenever either argument is empty or missing.
C2_ReflexiveUnlessEmpty ==
    matched # <<>> =>
        /\ (name1 = name2 /\ name1.t = "string" /\ name1.v # "")
               => matched[1] = Return(TRUE)
        /\ (name1 \in {Str(""), Undefined} \/ name2 \in {Str(""), Undefined})
               => matched[1] = Return(FALSE)

\* an empty name compared with itself
C2_Witness ==
    /\ name1 = Str("")
    /\ name2 = Str("")
    /\ matched = <<Return(FALSE)>>

DocumentedAliasPairs ==
    {<<"USA", "United States of America">>,
     <<"United Kingdom", "Britain">>,
     <<"Czechia", "Czech Republic">>}

\* C3: countriesMatch is true for each documented alias pair.
C3_AliasPairsMatch ==
    (matched # <<>> /\ name1.t = "string" /\ name2.t = "string"
        /\ <<name1.v, name2.v>> \in DocumentedAliasPairs)
    => matched[1] = Return(TRUE)

\* the pair that only the second direction of the cross-check resolves
C3_Witness ==
    /\ name1 = Str("USA")
    /\ name2 = Str("United States of America")
    /\ matched = <<Return(TRUE)>>

\* C4: Romania and Oman never match, in either order, in any casing and
\* with any surrounding blanks.
C4_RomaniaOmanNeverMatch ==
    (matched # <<>> /\ name1.t = "string" /\ name2.t = "string"
        /\ \/ name1.v \in Variants("Romania") /\ name2.v \in Variants("Oman")
           \/ name1.v \in Variants("Oman") /\ name2.v \in Variants("Romania"))
    => matched[1] = Return(FALSE)

\* Oman first, upper case and padded, against Romania
C4_Witness ==
    /\ name1 = Str(" OMAN")
    /\ name2 = Str("Romania ")
    /\ matched = <<Return(FALSE)>>

\* the match was found by neither the direct comparison nor the cross-check
ByContainmentOnly ==
    /\ matched = <<Return(TRUE)>>
    /\ Canon1 # Canon2
    /\ ~crossCheck(Str(Canon1), Str(Canon2)).val

\* C5: a match found by containment only has a contained canonical name of
\* at least 4 characters, and countriesMatch("Chad", "Ch") is false.
C5_ContainmentFloor ==
    /\ ByContainmentOnly =>
          LET short == IF Len(Canon1) <= Len(Canon2) THEN Canon1 ELSE Canon2
              long == IF Len(Canon1) <= Len(Canon2) THEN Canon2 ELSE Canon1
          IN  Len(short) >= 4 /\ includes(long, short)
    /\ (matched # <<>> /\ name1 = Str("Chad") /\ name2 = Str("Ch"))
          => matched[1] = Return(FALSE)

\* a containment below the floor that is refused
C5_Witness ==
    /\ name1 = Str("Chad")
    /\ name2 = Str("Ch")
    /\ matched = <<Return(FALSE)>>

\* C9: normalizeCountryName returns a string for every string and for a
\* missing name, the empty string for empty and missing names, and
\* countriesMatch throws for no pair of names.
C9_Total ==
    /\ Len(passes) >= 1 =>
          /\ ~passes[1].threw
          /\ passes[1].val.t = "string"
          /\ name1 \in {Str(""), Undefined} => passes[1].val = Str("")
    /\ matched # <<>> => ~matched[1].threw

\* C10 as stated: a third normalization gives what the second gave.
C10_IdempotentAfterTwo ==
    Len(passes) >= 3 => passes[3] = passes[2]

\* C10 amended: a third normalization gives what the second gave whenever
\* the second gave a string that is not a key of the alias table.
C10_IdempotentOffTable ==
    (Len(passes) >= 3 /\ passes[2].val.t = "string"
        /\ passes[2].val.v \notin DOMAIN countryMappings)
    => passes[3] = passes[2]

\* the one-way chain vatican -> vatican city -> holy see
C10_Witness ==
    /\ name1 = Str("vatican")
    /\ Len(passes) >= 3
    /\ passes[2] = Return(Str("holy see"))

(***************************************************************************)
(* Properties of the highlight computation, checked under SpecMap.         *)
(***************************************************************************)
\* every reordering of a feature sequence
Reorderings(features) ==
    {[i \in DOMAIN features |-> features[p[i]]] : p \in Permutations(DOMAIN features)}

\* C6: the set of highlighted country features does not depend on the order
\* of the features: once the country collection has been scanned, scanning
\* any reordering of it against the same visited countries adds exactly the
\* layers that were added.
C6_OrderIndependent ==
    countriesData # <<>> =>
        \A reordered \in Reorderings(countriesData[1]) :
            scanCountries(revision, reordered, visitedCountries(locations)).layers
                = countryLayers

\* C7: with no locations no country layer and no region layer is added and
\* no admin-1 source is requested.
C7_EmptyVisitedNoHighlight ==
    locations = <<>> =>
        /\ countryLayers = {}
        /\ regionLayers = {}
        /\ \A i \in DOMAIN requests : requests[i] \notin Range(admin1Sources)

\* no locations, and a country collection of at least two features scanned
C7_Witness ==
    /\ locations = <<>>
    /\ pc = "done"
    /\ countriesData # <<>>
    /\ Len(countriesData[1]) >= 2

\* the stored locations that carry a region
RegionLocations ==
    {locations[i] : i \in {j \in DOMAIN locations :
        Truthy(locations[j].region) /\ trim(locations[j].region.v) # ""}}

Admin1Requests == {i \in DOMAIN requests : requests[i] \in Range(admin1Sources)}

\* the requests are the country dataset, then the admin-1 sources in list order
RequestsInListOrder ==
    \/ requests = <<>>
    \/ \E k \in 0..Len(admin1Sources) :
          requests = <<countriesUrl>> \o SubSeq(admin1Sources, 1, k)

CountryMatches(features) ==
    {f \in Range(features) :
        /\ Truthy(countryNameOf(f))
        /\ isVisited(revision, countryNameOf(f), visitedCountries(locations)).val}

\* C13: a feature without any name field is skipped silently: the other
\* features are all tested, no error is logged, no fallback circle is drawn
\* and region loading is entered as usual.
C13_NamelessFeatureSkipped ==
    (countriesData # <<>>
        /\ \E i \in DOMAIN countriesData[1] : ~Truthy(countryNameOf(countriesData[1][i])))
    => /\ countryLayers = CountryMatches(countriesData[1])
       /\ "TypeError" \notin Range(consoleErrors)
       /\ circles = {}
       /\ regionsWanted(revision, locations) => sourceIdx >= 1

\* the country fetch was rejected: it is the only request and the only error
CountryFetchFailed ==
    /\ requests = <<countriesUrl>>
    /\ consoleErrors = <<"NetworkError">>

\* C14: after a network failure of the country fetch loadPolygons has
\* returned, with one circle for every country of the locations, no region
\* layer and no country layer.
C14_CountryFetchFailureFallsBack ==
    CountryFetchFailed =>
        /\ pc = "done"
        /\ inFlight = {}
        /\ circles = {locations[i].country : i \in DOMAIN locations}
        /\ regionLayers = {}
        /\ countryLayers = {}

\* the failure with two visited countries, one of them with a region
C14_Witness ==
    /\ CountryFetchFailed
    /\ Cardinality(circles) = 2
    /\ Len(visitedRegions(locations)) > 0

\* the walk over admin1Sources has ended without any region highlighted
RegionWalkExhausted ==
    /\ pc = "done"
    /\ sourceIdx = Len(admin1Sources)
    /\ regionLayers = {}

\* C15: when the walk over the admin-1 sources ends without a match, the
\* country layers are those the country scan added, no fallback circle is
\* drawn and loadPolygons has returned.
C15_ExhaustedWalkKeepsCountries ==
    RegionWalkExhausted =>
        /\ countryLayers =
              (IF countriesData = <<>> THEN {} ELSE CountryMatches(countriesData[1]))
        /\ circles = {}
        /\ inFlight = {}

\* both sources failed, one by a rejected fetch, and a country stays highlighted
C15_Witness ==
    /\ RegionWalkExhausted
    /\ countryLayers # {}
    /\ "NetworkError" \in Range(consoleErrors)

\* C16: no cycle draws both a country polygon and a fallback circle.
C16_PolygonsOrCircles ==
    ~(countryLayers # {} /\ circles # {})

\* C17: whenever loadPolygons has returned without the country dataset and
\* there are visited countries, the fallback circles have been drawn.
C17_NoDatasetMeansCircles ==
    (pc = "done" /\ countriesData = <<>> /\ locations # <<>>) => circles # {}

\* C18: at most one dataset request is in flight at any time.
C18_OneFetchAtATime ==
    Cardinality(inFlight) <= 1

\* the second admin-1 source is being fetched after the first was scanned
C18_Witness ==
    /\ inFlight = {admin1Sources[2]}
    /\ admin1Data # <<>>

\* C19: a parsed country collection is always scanned, and an admin-1 source
\* is requested only with a non-empty visitedRegions and only after the
\* country fetch has settled.
C19_CountriesAlwaysRegionsConditionally ==
    /\ countriesData # <<>> =>
          countryLayers =
              scanCountries(revision, countriesData[1], visitedCountries(locations)).layers
    /\ Admin1Requests # {} =>
          /\ Len(visitedRegions(locations)) > 0
          /\ requests[1] = countriesUrl
          /\ \A i \in Admin1Requests : i > 1
          /\ pc \notin {"idle", "fetchCountries", "jsonCountries"}
          /\ countriesUrl \notin inFlight

\* a country was highlighted and then an admin-1 source was requested
C19_Witness ==
    /\ Admin1Requests # {}
    /\ countriesData # <<>>
    /\ countryLayers # {}

(***************************************************************************)
(* Properties of MapScreen, checked under SpecScreen.                      *)
(***************************************************************************)
\* C12: once every started load has delivered its result, the locations
\* shown are those read by the load that was started last, whatever the
\* order in which the results arrived.
C12_LatestCycleWins ==
    (loads # <<>> /\ \A i \in DOMAIN loads : loads[i].state = "done")
        => locations = loads[Len(loads)].value

(***************************************************************************)
(* Further properties of the matcher, checked under SpecMatch.             *)
(***************************************************************************)
\* C20: normalizeCountryName(x) is the table entry of the lowercased and
\* trimmed x when there is one, and the lowercased and trimmed x otherwise.
C20_SingleHopLookup ==
    (Len(passes) >= 1 /\ name1.t = "string") =>
        LET key == toLowerCase(trim(name1.v))
        IN  passes[1] = Return(Str(IF key \in DOMAIN countryMappings
                                   THEN countryMappings[key] ELSE key))

\* the calls of normalizeCountryName made for one operand
CallsFor(k) == {i \in DOMAIN calls : calls[i].operand = k}

\* C21: every call of countriesMatch ends in a completion, and it resolves
\* each operand at most twice: the operand itself and its first-pass value.
C21_TerminatesWithTwoPasses ==
    /\ matched # <<>> => matched[1] \in {Return(TRUE), Return(FALSE), MatchThrew}
    /\ \A k \in {1, 2} : Cardinality(CallsFor(k)) <= 2
    /\ \A i \in DOMAIN calls : i > 2 =>
          calls[i].arg = normalizeCountryName(calls[calls[i].operand].arg).val

\* both operands lie on the three-entry cycle: each was resolved twice and
\* the second-pass value of name2 is a table key that is not resolved again
C21_Witness ==
    /\ name1 = Str("united states")
    /\ name2 = Str("america")
    /\ matched = <<Return(TRUE)>>
    /\ Len(calls) = 4
    /\ normalizeCountryName(calls[4].arg).val.v \in DOMAIN countryMappings

\* C22: every key of the alias table matches its own target, in both
\* argument orders.
C22_EntriesMatchTheirTargets ==
    (matched # <<>> /\ name1.t = "string" /\ name2.t = "string"
        /\ \/ name1.v \in DOMAIN countryMappings /\ countryMappings[name1.v] = name2.v
           \/ name2.v \in DOMAIN countryMappings /\ countryMappings[name2.v] = name1.v)
    => matched[1] = Return(TRUE)

\* the target before its one-way key, matched by the second cross-check only
C22_Witness ==
    /\ name1 = Str("vatican city")
    /\ name2 = Str("vatican")
    /\ matched = <<Return(TRUE)>>

\* C23: South Korea and North Korea never match, in either argument order.
C23_KoreasNeverMatch ==
    (matched # <<>> /\ name1.t = "string" /\ name2.t = "string"
        /\ {toLowerCase(trim(name1.v)), toLowerCase(trim(name2.v))}
              = {"south korea", "north korea"})
    => matched[1] = Return(FALSE)

(***************************************************************************)
(* Properties of LocationStorage, checked under SpecStorage.               *)
(***************************************************************************)
\* the list in the store
SavedList == IF stored = <<>> THEN <<>> ELSE stored[1]

\* the list that was in the store when call i started
ListBefore(i) == IF ops[i].before = <<>> THEN <<>> ELSE ops[i].before[1]

\* call i has returned or thrown
Finished(i) == ops[i].state \in {"returned", "threw"}

\* C24: when two addLocation calls overlap and both return, the store holds
\* both added locations and every record saved before the first call.
C24_NoLostUpdate ==
    (/\ Len(ops) = 2
     /\ \A i \in {1, 2} : /\ ops[i].op = "add"
                           /\ ops[i].state = "returned"
                           /\ ~ops[i].readFailed)
    => \A r \in Range(ListBefore(1)) \cup {ops[1].arg, ops[2].arg} :
          r \in Range(SavedList)

\* C25: after an addLocation or a deleteLocation that ran alone, every
\* record saved before the call is still saved, except the records with the
\* deleted id; also when the read inside the call failed.
C25_UnrelatedRecordsKept ==
    (Len(ops) = 1 /\ ops[1].op \in {"add", "delete"} /\ Finished(1))
    => \A r \in Range(ListBefore(1)) :
          \/ ops[1].op = "delete" /\ r.id = ops[1].id
          \/ r \in Range(SavedList)

\* no record saved before call i has the id the call was given
IdMissing(i) == \A r \in Range(ListBefore(i)) : r.id # ops[i].id

\* C26: an updateLocation with an id that no saved record has never saves:
\* it throws 'Failed to update location' and the store is as before.
C26_UpdateOfMissingIdFails ==
    (Len(ops) = 1 /\ ops[1].op = "update" /\ IdMissing(1)
        /\ ops[1].state # "loading")
    => /\ ops[1].state = "threw"
       /\ ops[1].error = "Failed to update location"
       /\ stored = ops[1].before

\* the id is missing from a store that is not empty
C26_Witness ==
    /\ Len(ops) = 1
    /\ ops[1].op = "update"
    /\ IdMissing(1)
    /\ ListBefore(1) # <<>>
    /\ ~ops[1].readFailed
    /\ ops[1].state = "threw"

\* the position of the first record with the given id
FirstWithId(list, locationId) ==
    CHOOSE i \in DOMAIN list :
        /\ list[i].id = locationId
        /\ \A j \in 1..(i - 1) : list[j].id # locationId

\* C27: an updateLocation that ran alone with a saved id and returned has
\* saved the list it returns: the list as before, with the fields of the
\* partial update written over the first record with that id; when it
\* throws, the store is as before.
C27_UpdateMergesFirstOnly ==
    (Len(ops) = 1 /\ ops[1].op = "update" /\ ~IdMissing(1))
    => /\ ops[1].state = "returned" =>
            LET before == ListBefore(1)
                at == FirstWithId(before, ops[1].id)
            IN  /\ ops[1].list = SavedList
                /\ Len(SavedList) = Len(before)
                /\ \A j \in DOMAIN before : j # at => SavedList[j] = before[j]
                /\ DOMAIN SavedList[at] = DOMAIN before[at] \cup DOMAIN ops[1].arg
                /\ \A f \in DOMAIN SavedList[at] :
                      SavedList[at][f] = IF f \in DOMAIN ops[1].arg
                                         THEN ops[1].arg[f] ELSE before[at][f]
       /\ ops[1].state = "threw" => stored = ops[1].before

\* two saved records share the id: the first has the new notes, the second
\* is as it was
C27_Witness ==
    /\ Len(ops) = 1
    /\ ops[1].op = "update"
    /\ ops[1].state = "returned"
    /\ Len(SavedList) = 2
    /\ SavedList[1].id = "1" /\ SavedList[1].notes = "seen"
    /\ SavedList[2].id = "1" /\ SavedList[2].notes = ""

\* the records of the list other than those with the given id, in order
RECURSIVE Without(_, _)
Without(list, locationId) ==
    IF list = <<>> THEN <<>>
    ELSE IF Head(list).id = locationId THEN Without(Tail(list), locationId)
    ELSE <<Head(list)>> \o Without(Tail(list), locationId)

\* C28: a deleteLocation that ran alone and returned has saved, and
\* returns, the list as before without the records of the given id; a
\* second deleteLocation of the same id after it leaves that list as it is.
C28_DeleteRemovesExactlyTheId ==
    /\ (Len(ops) >= 1 /\ ops[1].op = "delete" /\ ops[1].state = "returned"
            /\ Len(ops) = 1)
       => /\ SavedList = Without(ListBefore(1), ops[1].id)
          /\ ops[1].list = SavedList
    /\ (Len(ops) = 2 /\ \A i \in {1, 2} : ops[i].op = "delete" /\ ops[i].state = "returned"
            /\ ops[2].id = ops[1].id /\ ops[2].before = <<ops[1].list>>)
       => SavedList = ops[1].list

(***************************************************************************)
(* Properties of LocationAutocomplete and debounce, checked under          *)
(* SpecSearch.                                                             *)
(***************************************************************************)
\* the suggestions are the results of a search for the current text
BelongToText ==
    \A i \in DOMAIN suggestions : suggestions[i].query = searchText

\* C29: while the text is empty, shorter than 2 characters or the name of
\* a selected suggestion there are no suggestions, and suggestions that
\* belong to the text are not replaced by those of another query as long
\* as the text stays.
C29_SuggestionsBelongToText ==
    /\ [](Len(trim(searchText)) < 2 => suggestions = <<>>)
    /\ [](searchText = "Romania" => suggestions = <<>>)
    /\ [][(suggestions # <<>> /\ BelongToText /\ searchText' = searchText)
            => (suggestions' = <<>> \/ BelongToText')]_vars

\* every call of the debounced function came less than Wait after the one before
Burst ==
    \A i \in 2..Len(debouncedCalls) :
        debouncedCalls[i].at - debouncedCalls[i - 1].at < Wait

\* C30: during a burst of calls the wrapped function does not run while
\* the timer of the last call is pending, and once that timer has run it
\* has run exactly once, with the argument of the last call and not
\* earlier than Wait after it.
C30_BurstRunsOnceWithLastArgs ==
    (debouncedCalls # <<>> /\ Burst) =>
        LET last == debouncedCalls[Len(debouncedCalls)]
        IN  IF timers # {}
            THEN /\ funcRuns = <<>>
                 /\ timers = {[id |-> timeout, due |-> last.at + Wait, args |-> last.args]}
            ELSE /\ Len(funcRuns) = 1
                 /\ funcRuns[1].args = last.args
                 /\ funcRuns[1].at >= last.at + Wait

\* a burst of two calls with different arguments, after which the function ran
C30_Witness ==
    /\ Len(debouncedCalls) = 2
    /\ Burst
    /\ debouncedCalls[1].args = "ro"
    /\ debouncedCalls[2].args = "rom"
    /\ debouncedCalls[2].at > debouncedCalls[1].at
    /\ funcRuns # <<>>

====
